---- MODULE Spec2Model ----
(***************************************************************************)
(* A model of the lookup-then-merge-then-write pipeline of                 *)
(* update-google-sheets (package sheets, sheets/update.go).                *)
(*                                                                         *)
(* Text is modelled as a sequence of one-character strings, so that        *)
(* trimming, quoting and comparison are computed character by character.   *)
(* A value grid ([][]interface{}) is a sequence of rows, a row a sequence  *)
(* of cell texts.  Go indexes from 0; the operators below take the same    *)
(* 0-based row and column indexes as the code and add 1 when they index a  *)
(* TLA+ sequence.                                                          *)
(***************************************************************************)
EXTENDS Integers, Sequences, FiniteSets, TLC

VARIABLES
    workbook,     \* the file cfg/Schedule.xlsx as excelize reads it
    sheetFilter,  \* cfg.SheetFilter
    lookup,       \* cfg.LookupValue
    remote,       \* the Google Sheet: address -> value grid stored there
    pc,           \* position of the current run of Update
    ranges,       \* Update's local "ranges" (result of the scan)
    idx,          \* number of ranges buildPayloads has already fetched
    payloads,     \* buildPayloads' local "payloads"
    summary,      \* the Summary that Update returns
    err,          \* the error that Update returns ("nil" when none)
    calls,        \* external calls issued by the current run, in order
    fetchedVals,  \* what each fetch of the current run returned, in order
    runNo,        \* number of the current run
    prevOutcome,  \* pc at the end of the previous run ("none" for the first)
    writes,       \* number of writes by other users of the Google Sheet
    quiet,        \* no other user wrote since the current run began
    prevQuiet,    \* no other user wrote from the previous run's start to its end
    startRemote,  \* the Google Sheet as it was when the current run began
    resp,         \* the response to the run's batch update (NoResponse before)
    arg,          \* input of a pure function under test
    out,          \* its result
    phase         \* "input" before the call, "output" after it

vars == << workbook, sheetFilter, lookup, remote, pc, ranges, idx, payloads,
           summary, err, calls, fetchedVals, runNo, prevOutcome, writes,
           quiet, prevQuiet, startRemote, resp, arg, out, phase >>

runVars == << workbook, sheetFilter, lookup, remote, pc, ranges, idx,
              payloads, summary, err, calls, fetchedVals, runNo, prevOutcome,
              writes, quiet, prevQuiet, startRemote, resp >>

fnVars == << arg, out, phase >>

----------------------------------------------------------------------------
(* Bounds of the model.                                                    *)

MaxRows == 1        \* rows of a grid given to mergeValues
MaxCols == 2        \* columns of a row given to mergeValues
MaxSheetRows == 2   \* rows of a worksheet of the workbook
MaxSheetCols == 2   \* cells of a row of a worksheet
MaxNameLen == 3     \* characters of a generated worksheet name
MaxRuns == 2
MaxWrites == 1

----------------------------------------------------------------------------
(* Text.                                                                   *)

\* unicode.IsSpace, restricted to the white space of the model's alphabet.
IsSpace(c) == c \in {" ", "\t"}

RECURSIVE TrimLeft(_)
TrimLeft(s) ==
    IF s = << >> THEN << >>
    ELSE IF IsSpace(Head(s)) THEN TrimLeft(Tail(s))
    ELSE s

RECURSIVE TrimRight(_)
TrimRight(s) ==
    IF s = << >> THEN << >>
    ELSE IF IsSpace(s[Len(s)]) THEN TrimRight(SubSeq(s, 1, Len(s) - 1))
    ELSE s

\* strings.TrimSpace
TrimSpace(s) == TrimRight(TrimLeft(s))

\* fmt.Sprint of a cell value.  The cells of the model are texts, which
\* fmt.Sprint prints unchanged.
Sprint(v) == v

\* strings.ContainsAny(s, chars)
ContainsAny(s, chars) == \E i \in 1..Len(s) : s[i] \in chars

RECURSIVE ReplaceAll(_, _, _)
\* strings.ReplaceAll(s, old, new) for a one-character old
ReplaceAll(s, old, new) ==
    IF s = << >> THEN << >>
    ELSE (IF Head(s) = old THEN new ELSE << Head(s) >>)
            \o ReplaceAll(Tail(s), old, new)

----------------------------------------------------------------------------
(* Merge engine.                                                           *)

cellHasValueNever(values, row, col) == FALSE

cellHasValueUntrimmed(values, row, col) ==
    IF row >= Len(values) THEN FALSE
    ELSE IF col >= Len(values[row + 1]) THEN FALSE
    ELSE Sprint(values[row + 1][col + 1]) # << >>

cellHasValue(values, row, col) ==
    IF row >= Len(values) THEN FALSE
    ELSE IF col >= Len(values[row + 1]) THEN FALSE
    ELSE TrimSpace(Sprint(values[row + 1][col + 1])) # << >>

cellHasValueIndexesUnchecked(values, row, col) == { << row, col >> }

\* the positions at which cellHasValue evaluates values[row][col]
cellHasValueIndexes(values, row, col) ==
    IF row >= Len(values) THEN {}
    ELSE IF col >= Len(values[row + 1]) THEN {}
    ELSE { << row, col >> }

\* the positions at which mergeValues and its calls of cellHasValue evaluate
\* existing[r][c]
mergeValuesIndexes(existing, desired) ==
    UNION { UNION { cellHasValueIndexes(existing, r - 1, c - 1)
                      \cup (IF cellHasValue(existing, r - 1, c - 1)
                            THEN { << r - 1, c - 1 >> } ELSE {}) :
                    c \in 1..Len(desired[r]) } :
            r \in 1..Len(desired) }

mergeValuesOverwrite(existing, desired) ==
    [ merged |-> desired,
      wrote  |-> \E r \in 1..Len(desired) : \E c \in 1..Len(desired[r]) :
                    TrimSpace(Sprint(desired[r][c])) # << >> ]

mergeValuesExistingShape(existing, desired) ==
    [ merged |-> existing,
      wrote |->
        \E r \in 1..Len(desired) : \E c \in 1..Len(desired[r]) :
            /\ ~cellHasValue(existing, r - 1, c - 1)
            /\ TrimSpace(Sprint(desired[r][c])) # << >> ]

mergeValuesFlagAnyDesired(existing, desired) ==
    [ merged |->
        [ r \in 1..Len(desired) |->
            [ c \in 1..Len(desired[r]) |->
                IF cellHasValue(existing, r - 1, c - 1)
                THEN existing[r][c]
                ELSE desired[r][c] ] ],
      wrote |->
        \E r \in 1..Len(desired) : \E c \in 1..Len(desired[r]) :
            TrimSpace(Sprint(desired[r][c])) # << >> ]

mergeValues(existing, desired) ==
    [ merged |->
        [ r \in 1..Len(desired) |->
            [ c \in 1..Len(desired[r]) |->
                IF cellHasValue(existing, r - 1, c - 1)
                THEN existing[r][c]
                ELSE desired[r][c] ] ],
      wrote |->
        \E r \in 1..Len(desired) : \E c \in 1..Len(desired[r]) :
            /\ ~cellHasValue(existing, r - 1, c - 1)
            /\ TrimSpace(Sprint(desired[r][c])) # << >> ]

----------------------------------------------------------------------------
(* Range formatter.                                                        *)

formatRangeNoEscape(sheet, cell) ==
    IF ContainsAny(sheet, {" ", "!", "'"})
    THEN << "'" >> \o sheet \o << "'", "!" >> \o cell
    ELSE sheet \o << "!" >> \o cell

formatRange(sheet, cell) ==
    IF ContainsAny(sheet, {" ", "!", "'"})
    THEN << "'" >> \o ReplaceAll(sheet, "'", << "'", "'" >>)
            \o << "'", "!" >> \o cell
    ELSE sheet \o << "!" >> \o cell

Letters == << "A", "B", "C", "D", "E", "F", "G", "H", "I", "J", "K", "L", "M",
              "N", "O", "P", "Q", "R", "S", "T", "U", "V", "W", "X", "Y", "Z" >>

Digits == << "0", "1", "2", "3", "4", "5", "6", "7", "8", "9" >>

RECURSIVE ColumnNumberToName(_)
\* excelize.ColumnNumberToName: bijective base 26
ColumnNumberToName(col) ==
    IF col <= 0 THEN << >>
    ELSE ColumnNumberToName((col - 1) \div 26) \o << Letters[((col - 1) % 26) + 1] >>

RECURSIVE Itoa(_)
\* strconv.Itoa of a non-negative number
Itoa(n) ==
    IF n < 10 THEN << Digits[n + 1] >>
    ELSE Itoa(n \div 10) \o << Digits[(n % 10) + 1] >>

\* excelize.CoordinatesToCellName(col, row), both 1-based
CoordinatesToCellName(col, row) == ColumnNumberToName(col) \o Itoa(row)

----------------------------------------------------------------------------
(* Workbook scanner.  A workbook is what excelize makes of the file:       *)
(* whether OpenFile succeeds, and for every worksheet, in workbook order,  *)
(* its name, whether GetRows succeeds, and the rows GetRows returns.       *)

\* f.GetSheetList()
GetSheetList(wb) == [ i \in 1..Len(wb.sheets) |-> wb.sheets[i].name ]

\* the worksheet of that name (names are unique in a workbook)
SheetNamed(wb, name) ==
    wb.sheets[CHOOSE i \in 1..Len(wb.sheets) : wb.sheets[i].name = name]

filterSheetsIgnoreFilter(all, filter) == all

filterSheetsFirstOnly(all, filter) ==
    IF filter = << >> THEN (IF all = << >> THEN << >> ELSE << Head(all) >>)
    ELSE IF \E i \in 1..Len(all) : all[i] = filter THEN << filter >>
    ELSE << >>

filterSheets(all, filter) ==
    IF filter = << >> THEN all
    ELSE IF \E i \in 1..Len(all) : all[i] = filter THEN << filter >>
    ELSE << >>

RECURSIVE rowMatches(_, _, _, _, _)
\* the inner loop over the cells of one row, from column index cIdx on
rowMatches(sheet, row, rIdx, cIdx, want) ==
    IF cIdx >= Len(row) THEN << >>
    ELSE (IF TrimSpace(row[cIdx + 1]) # want THEN << >>
          ELSE << formatRange(sheet, CoordinatesToCellName(cIdx + 1, rIdx + 1)) >>)
            \o rowMatches(sheet, row, rIdx, cIdx + 1, want)

RECURSIVE sheetMatches(_, _, _, _)
\* the loop over the rows of one worksheet, from row index rIdx on
sheetMatches(sheet, rows, rIdx, want) ==
    IF rIdx >= Len(rows) THEN << >>
    ELSE rowMatches(sheet, rows[rIdx + 1], rIdx, 0, want)
            \o sheetMatches(sheet, rows, rIdx + 1, want)

appendMatchesReversed(matches, found) == found \o matches

\* matches = append(matches, ...) for the cells found in one worksheet
appendMatches(matches, found) == matches \o found

RECURSIVE scanSheets(_, _, _, _)
\* the loop over the candidate worksheets
scanSheets(wb, sheetsList, want, matches) ==
    IF sheetsList = << >> THEN [ranges |-> matches, err |-> "nil"]
    ELSE LET sheet == Head(sheetsList)
             s     == SheetNamed(wb, sheet)
         IN  IF ~s.readOk THEN [ranges |-> << >>, err |-> "read sheet"]
             ELSE scanSheets(wb, Tail(sheetsList), want,
                    appendMatches(matches, sheetMatches(sheet, s.rows, 0, want)))

scanOutcomeNoCheck(scanned) == scanned

\* the check of len(matches) that ends the scan
scanOutcome(scanned) ==
    IF scanned.err = "nil" /\ Len(scanned.ranges) = 0
    THEN [ranges |-> << >>, err |-> "value not found"]
    ELSE scanned

deriveRangesFromExcel(wb, filter, lookupValue) ==
    IF ~wb.openOk THEN [ranges |-> << >>, err |-> "open config workbook"]
    ELSE LET want       == TrimSpace(lookupValue)
             sheetsList == filterSheets(GetSheetList(wb), filter)
         IN  IF filter # << >> /\ Len(sheetsList) = 0
             THEN [ranges |-> << >>, err |-> "sheet not found"]
             ELSE scanOutcome(scanSheets(wb, sheetsList, want, << >>))

\* the errors of the scan that the design calls NotFound
NotFound == {"sheet not found", "value not found"}

----------------------------------------------------------------------------
(* The cells of a workbook that match a label, for stating what a scan      *)
(* must return.                                                            *)

\* indexes of the worksheets that the filter leaves as candidates
Candidates(wb, filter) ==
    { i \in 1..Len(wb.sheets) : filter = << >> \/ wb.sheets[i].name = filter }

\* the cells << worksheet, row, column >> (1-based) of the candidate
\* worksheets whose trimmed text equals the trimmed label
MatchCells(wb, filter, label) ==
    { t \in UNION { UNION { { << i, r, c >> :
                                c \in 1..Len(wb.sheets[i].rows[r]) } :
                            r \in 1..Len(wb.sheets[i].rows) } :
                    i \in Candidates(wb, filter) } :
        TrimSpace(wb.sheets[t[1]].rows[t[2]][t[3]]) = TrimSpace(label) }

AddressOf(wb, t) ==
    formatRange(wb.sheets[t[1]].name, CoordinatesToCellName(t[3], t[2]))

\* worksheet order, then row order, then column order
Before(t, u) ==
    \/ t[1] < u[1]
    \/ t[1] = u[1] /\ t[2] < u[2]
    \/ t[1] = u[1] /\ t[2] = u[2] /\ t[3] < u[3]

Readable(wb, filter) ==
    /\ wb.openOk
    /\ \A i \in Candidates(wb, filter) : wb.sheets[i].readOk

----------------------------------------------------------------------------
(* Input sets.                                                             *)

\* all texts over the characters cs of length at most n
Texts(cs, n) == UNION { [1..k -> cs] : k \in 0..n }

\* all grids, ragged ones included, whose cells are drawn from cells
GridsOf(cells) ==
    LET rows == UNION { [1..k -> cells] : k \in 0..MaxCols }
    IN  UNION { [1..k -> rows] : k \in 0..MaxRows }

ExistingCells == { << >>, << " " >>, << "e" >> }
DesiredCells  == { << "\t" >>, << "d" >> }

SheetOne == << "S", "h", "e", "e", "t", " ", "O", "n", "e" >>
Sheet1   == << "S", "h", "e", "e", "t", "1" >>
OBriens  == << "O", "'", "B", "r", "i", "e", "n", "'", "s" >>

SheetNames == Texts({"a", " ", "!", "'"}, MaxNameLen) \cup {SheetOne, Sheet1, OBriens}
CellNames  == { CoordinatesToCellName(1, 1), CoordinatesToCellName(3, 2) }

\* Workbooks for the scan.  The first worksheet is any grid within the
\* bounds, a second worksheet, when there is one, has at most one row.  In
\* the workbooks with a worksheet that cannot be read, every worksheet has at
\* most one row.
ScanCells == { << " ", "X" >>, << "Y" >> }

NameS1 == << "S", "1" >>
NameS2 == << "S", " ", "2" >>
NameNo == << "N", "o" >>

SheetGrids ==
    LET rows == UNION { [1..k -> ScanCells] : k \in 0..MaxSheetCols }
    IN  UNION { [1..k -> rows] : k \in 0..MaxSheetRows }

OneRowGrids ==
    LET rows == UNION { [1..k -> ScanCells] : k \in 0..MaxSheetCols }
    IN  UNION { [1..k -> rows] : k \in 0..1 }

ScanWorkbooks ==
    { [openOk |-> FALSE, sheets |-> << >>] }
    \cup { [openOk |-> TRUE,
            sheets |-> << [name |-> NameS1, rows |-> g, readOk |-> TRUE] >>] :
            g \in SheetGrids }
    \cup { [openOk |-> TRUE,
            sheets |-> << [name |-> NameS1, rows |-> g, readOk |-> TRUE],
                          [name |-> NameS2, rows |-> h, readOk |-> TRUE] >>] :
            g \in SheetGrids, h \in OneRowGrids }
    \cup { [openOk |-> TRUE,
            sheets |-> << [name |-> NameS1, rows |-> g, readOk |-> FALSE] >>] :
            g \in OneRowGrids }
    \cup { [openOk |-> TRUE,
            sheets |-> << [name |-> NameS1, rows |-> g, readOk |-> u # 1],
                          [name |-> NameS2, rows |-> h, readOk |-> u # 2] >>] :
            g \in OneRowGrids, h \in OneRowGrids, u \in 1..2 }

ScanFilters == { << >>, NameS2, NameNo }
ScanLookups == { << "X", " " >>, << "N" >> }

\* no batch update has been answered
NoResponse == [TotalUpdatedCells |-> 0, TotalUpdatedRows |-> 0]

\* the run of Update is not part of the specifications of the pure functions
RunIdle ==
    /\ workbook = [openOk |-> FALSE, sheets |-> << >>]
    /\ sheetFilter = << >>
    /\ lookup = << >>
    /\ remote = << >>
    /\ pc = "Idle"
    /\ ranges = << >>
    /\ idx = 0
    /\ payloads = << >>
    /\ summary = [Ranges |-> << >>, TotalCells |-> 0, TotalRows |-> 0,
                  SkippedReason |-> ""]
    /\ err = "nil"
    /\ calls = << >>
    /\ fetchedVals = << >>
    /\ runNo = 0
    /\ prevOutcome = "none"
    /\ writes = 0
    /\ quiet = TRUE
    /\ prevQuiet = TRUE
    /\ startRemote = remote
    /\ resp = NoResponse

\* Workbooks, configuration and Google Sheets of the runs of Update.
WbThreeCells ==
    [openOk |-> TRUE,
     sheets |-> << [name |-> NameS1, readOk |-> TRUE,
                    rows |-> << << << "X" >>, << "Y" >> >>,
                                << << " ", "X" >>, << "X", " " >> >> >>] >>]

WbTwoSheets ==
    [openOk |-> TRUE,
     sheets |-> << [name |-> NameS1, readOk |-> TRUE,
                    rows |-> << << << "X" >> >> >>],
                   [name |-> NameS2, readOk |-> TRUE,
                    rows |-> << << << "Y" >>, << "X" >> >> >>] >>]

WbNoMatch ==
    [openOk |-> TRUE,
     sheets |-> << [name |-> NameS1, readOk |-> TRUE,
                    rows |-> << << << "Y" >> >> >>] >>]

WbUnreadable ==
    [openOk |-> TRUE,
     sheets |-> << [name |-> NameS1, readOk |-> TRUE,
                    rows |-> << << << "X" >> >> >>],
                   [name |-> NameS2, readOk |-> FALSE,
                    rows |-> << >>] >>]

WbUnopenable == [openOk |-> FALSE, sheets |-> << >>]

RunWorkbooks == {WbThreeCells, WbTwoSheets, WbNoMatch, WbUnreadable, WbUnopenable}
RunFilters   == { << >>, NameS2 }
RunLookups   == { << "X" >> }

\* what the Google Sheet may hold at one address: nothing, white space, data
RemoteGrids == { << >>, << << << " " >> >> >>, << << << "o" >> >> >> }

\* a cell of the Google Sheet that no workbook of the model points at
OtherAddress == formatRange(NameS1, CoordinatesToCellName(3, 3))

\* the addresses of the Google Sheet kept in the model for a workbook
AddressesOf(wb) ==
    { AddressOf(wb, t) : t \in MatchCells(wb, << >>, << "X" >>) } \cup {OtherAddress}

----------------------------------------------------------------------------
(* The run of Update.                                                      *)

EmptySummary ==
    [Ranges |-> << >>, TotalCells |-> 0, TotalRows |-> 0, SkippedReason |-> ""]

\* values := [][]interface{}{{cfg.LookupValue}}
DesiredValues(lookupValue) == << << lookupValue >> >>

Call(op, ok, rng, data) == [op |-> op, ok |-> ok, rng |-> rng, data |-> data]

Terminal == {"Done", "NothingToWrite", "Failed"}

appendPayloadInFront(ps, rng, merged) ==
    << [Range |-> rng, Values |-> merged] >> \o ps

\* payloads = append(payloads, &sheets.ValueRange{...})
appendPayload(ps, rng, merged) ==
    Append(ps, [Range |-> rng, Values |-> merged])

afterBuildPayloadsAlwaysCommit(ps) ==
    [pc |-> "Committing", summary |-> EmptySummary]

\* Update between the return of buildPayloads and the call of batchUpdate
afterBuildPayloads(ps) ==
    IF Len(ps) = 0
    THEN [pc |-> "NothingToWrite",
          summary |-> [EmptySummary EXCEPT
                         !.SkippedReason = "all target cells already contain data"]]
    ELSE [pc |-> "Committing", summary |-> EmptySummary]

ApplyBatchWholeSheet(rem, data) ==
    IF data = << >> THEN rem
    ELSE [ a \in DOMAIN rem |-> Head(data).Values ]

RECURSIVE ApplyBatch(_, _)
\* the Google Sheet after a batch update: every value range is stored
ApplyBatch(rem, data) ==
    IF data = << >> THEN rem
    ELSE ApplyBatch([rem EXCEPT ![Head(data).Range] = Head(data).Values], Tail(data))

RECURSIVE CountCells(_)
CountCells(grid) ==
    IF grid = << >> THEN 0 ELSE Len(Head(grid)) + CountCells(Tail(grid))

RECURSIVE AfterBang(_)
\* the cell part of a range: what follows the last "!"
AfterBang(rng) ==
    IF rng = << >> THEN << >>
    ELSE IF rng[Len(rng)] = "!" THEN << >>
    ELSE AfterBang(SubSeq(rng, 1, Len(rng) - 1)) \o << rng[Len(rng)] >>

\* the worksheet part of a range: what precedes the last "!"
BeforeBang(rng) == SubSeq(rng, 1, Len(rng) - Len(AfterBang(rng)) - 1)

IsDigit(c) == \E i \in 1..Len(Digits) : Digits[i] = c

DigitValue(c) == (CHOOSE i \in 1..Len(Digits) : Digits[i] = c) - 1

RECURSIVE RowNumber(_, _)
\* the row number written in a cell name such as B12, read digit by digit
RowNumber(cell, acc) ==
    IF cell = << >> THEN acc
    ELSE IF IsDigit(Head(cell))
         THEN RowNumber(Tail(cell), acc * 10 + DigitValue(Head(cell)))
         ELSE RowNumber(Tail(cell), acc)

\* the rows of the Google Sheet that a batch update writes into
UpdatedRows(data) ==
    UNION { { << BeforeBang(data[k].Range),
                 RowNumber(AfterBang(data[k].Range), 0) + j - 1 >> :
              j \in 1..Len(data[k].Values) } :
            k \in 1..Len(data) }

RECURSIVE SumCells(_)
SumCells(data) ==
    IF data = << >> THEN 0
    ELSE CountCells(Head(data).Values) + SumCells(Tail(data))

RECURSIVE SumRows(_)
SumRows(data) ==
    IF data = << >> THEN 0 ELSE Len(Head(data).Values) + SumRows(Tail(data))

\* the totals the service may report for a batch update that it stored: the
\* number of cells written, and a number of rows between the count of
\* distinct rows written and the sum of the rows of the value ranges
ServiceTotals(data) ==
    { [TotalUpdatedCells |-> SumCells(data), TotalUpdatedRows |-> n] :
        n \in Cardinality(UpdatedRows(data))..SumRows(data) }

summaryRangesReversed(ps) == [ i \in 1..Len(ps) |-> ps[Len(ps) + 1 - i].Range ]

\* for _, p := range payloads { summary.Ranges = append(summary.Ranges, p.Range) }
summaryRanges(ps) == [ i \in 1..Len(ps) |-> ps[i].Range ]

InitRun ==
    /\ workbook \in RunWorkbooks
    /\ sheetFilter \in RunFilters
    /\ lookup \in RunLookups
    /\ remote \in [AddressesOf(workbook) -> RemoteGrids]
    /\ pc = "Initializing"
    /\ ranges = << >>
    /\ idx = 0
    /\ payloads = << >>
    /\ summary = EmptySummary
    /\ err = "nil"
    /\ calls = << >>
    /\ fetchedVals = << >>
    /\ runNo = 1
    /\ prevOutcome = "none"
    /\ writes = 0
    /\ quiet = TRUE
    /\ prevQuiet = TRUE
    /\ startRemote = remote
    /\ resp = NoResponse
    /\ arg = << >>
    /\ out = << >>
    /\ phase = "run"

\* sheets.NewService succeeds
NewServiceOk ==
    /\ pc = "Initializing"
    /\ pc' = "Scanning"
    /\ calls' = Append(calls, Call("NewService", TRUE, << >>, << >>))
    /\ UNCHANGED << workbook, sheetFilter, lookup, remote, ranges, idx, payloads,
                    summary, err, fetchedVals, runNo, prevOutcome, writes, quiet,
                    prevQuiet, startRemote, resp, fnVars >>

\* sheets.NewService fails
NewServiceFail ==
    /\ pc = "Initializing"
    /\ pc' = "Failed"
    /\ err' = "initialise Sheets service"
    /\ calls' = Append(calls, Call("NewService", FALSE, << >>, << >>))
    /\ UNCHANGED << workbook, sheetFilter, lookup, remote, ranges, idx, payloads,
                    summary, fetchedVals, runNo, prevOutcome, writes, quiet,
                    prevQuiet, startRemote, resp, fnVars >>

\* deriveRangesFromExcel(config.DefaultWorkbook, cfg.SheetFilter, cfg.LookupValue)
Scan ==
    /\ pc = "Scanning"
    /\ LET res == deriveRangesFromExcel(workbook, sheetFilter, lookup)
       IN  /\ calls' = Append(calls, Call("OpenFile", workbook.openOk, << >>, << >>))
           /\ IF res.err # "nil"
              THEN /\ pc' = "Failed"
                   /\ err' = res.err
                   /\ UNCHANGED ranges
              ELSE /\ pc' = "Fetching"
                   /\ ranges' = res.ranges
                   /\ UNCHANGED err
    /\ UNCHANGED << workbook, sheetFilter, lookup, remote, idx, payloads, summary,
                    fetchedVals, runNo, prevOutcome, writes, quiet, prevQuiet,
                    startRemote, resp,
                    fnVars >>

FetchFailSkip ==
    /\ pc = "Fetching"
    /\ idx < Len(ranges)
    /\ idx' = idx + 1
    /\ calls' = Append(calls, Call("Get", FALSE, ranges[idx + 1], << >>))
    /\ fetchedVals' = Append(fetchedVals, << >>)
    /\ LET next == afterBuildPayloads(payloads)
       IN  IF idx + 1 = Len(ranges)
           THEN pc' = next.pc /\ summary' = next.summary
           ELSE UNCHANGED << pc, summary >>
    /\ UNCHANGED << workbook, sheetFilter, lookup, remote, ranges, payloads, err,
                    runNo, prevOutcome, writes, quiet, prevQuiet, startRemote, resp, fnVars >>

FetchFailRetryOnce ==
    /\ pc = "Fetching"
    /\ idx < Len(ranges)
    /\ calls' = calls \o << Call("Get", FALSE, ranges[idx + 1], << >>),
                            Call("Get", FALSE, ranges[idx + 1], << >>) >>
    /\ payloads' = << >>
    /\ pc' = "Failed"
    /\ err' = "precondition failed"
    /\ UNCHANGED << workbook, sheetFilter, lookup, remote, ranges, idx, summary,
                    fetchedVals, runNo, prevOutcome, writes, quiet, prevQuiet,
                    startRemote, resp,
                    fnVars >>

\* one turn of the loop of buildPayloads whose fetchRangeValues fails
FetchFail ==
    /\ pc = "Fetching"
    /\ idx < Len(ranges)
    /\ calls' = Append(calls, Call("Get", FALSE, ranges[idx + 1], << >>))
    /\ payloads' = << >>
    /\ pc' = "Failed"
    /\ err' = "precondition failed"
    /\ UNCHANGED << workbook, sheetFilter, lookup, remote, ranges, idx, summary,
                    fetchedVals, runNo, prevOutcome, writes, quiet, prevQuiet,
                    startRemote, resp,
                    fnVars >>

\* one turn of the loop of buildPayloads whose fetchRangeValues succeeds; after
\* the last turn Update goes on to the check of len(payloads)
FetchOk ==
    /\ pc = "Fetching"
    /\ idx < Len(ranges)
    /\ LET rng      == ranges[idx + 1]
           existing == remote[rng]
           m        == mergeValues(existing, DesiredValues(lookup))
           ps       == IF m.wrote THEN appendPayload(payloads, rng, m.merged)
                       ELSE payloads
           next     == afterBuildPayloads(ps)
       IN  /\ calls' = Append(calls, Call("Get", TRUE, rng, << >>))
           /\ fetchedVals' = Append(fetchedVals, existing)
           /\ payloads' = ps
           /\ idx' = idx + 1
           /\ IF idx + 1 = Len(ranges)
              THEN pc' = next.pc /\ summary' = next.summary
              ELSE UNCHANGED << pc, summary >>
    /\ UNCHANGED << workbook, sheetFilter, lookup, remote, ranges, err, runNo,
                    prevOutcome, writes, quiet, prevQuiet, startRemote, resp, fnVars >>

CommitOkFirstOnly ==
    /\ pc = "Committing"
    /\ calls' = Append(calls, Call("BatchUpdate", TRUE, payloads[1].Range,
                                   << payloads[1] >>))
    /\ remote' = ApplyBatch(remote, << payloads[1] >>)
    /\ resp' \in ServiceTotals(payloads)
    /\ summary' = [summary EXCEPT !.TotalCells = resp'.TotalUpdatedCells,
                                  !.TotalRows = resp'.TotalUpdatedRows,
                                  !.Ranges = summaryRanges(payloads)]
    /\ pc' = "Done"
    /\ UNCHANGED << workbook, sheetFilter, lookup, ranges, idx, payloads, err,
                    fetchedVals, runNo, prevOutcome, writes, quiet, prevQuiet,
                    startRemote,
                    fnVars >>

CommitOkSwapTotals ==
    /\ pc = "Committing"
    /\ calls' = Append(calls, Call("BatchUpdate", TRUE, << >>, payloads))
    /\ remote' = ApplyBatch(remote, payloads)
    /\ resp' \in ServiceTotals(payloads)
    /\ summary' = [summary EXCEPT !.TotalCells = resp'.TotalUpdatedRows,
                                  !.TotalRows = resp'.TotalUpdatedCells,
                                  !.Ranges = summaryRanges(payloads)]
    /\ pc' = "Done"
    /\ UNCHANGED << workbook, sheetFilter, lookup, ranges, idx, payloads, err,
                    fetchedVals, runNo, prevOutcome, writes, quiet, prevQuiet,
                    startRemote,
                    fnVars >>

\* batchUpdate succeeds: the Google Sheet stores the batch and answers with
\* its totals, Update copies them into the summary and lists the ranges of
\* the payloads
CommitOk ==
    /\ pc = "Committing"
    /\ calls' = Append(calls, Call("BatchUpdate", TRUE, << >>, payloads))
    /\ remote' = ApplyBatch(remote, payloads)
    /\ resp' \in ServiceTotals(payloads)
    /\ summary' = [summary EXCEPT !.TotalCells = resp'.TotalUpdatedCells,
                                  !.TotalRows = resp'.TotalUpdatedRows,
                                  !.Ranges = summaryRanges(payloads)]
    /\ pc' = "Done"
    /\ UNCHANGED << workbook, sheetFilter, lookup, ranges, idx, payloads, err,
                    fetchedVals, runNo, prevOutcome, writes, quiet, prevQuiet,
                    startRemote,
                    fnVars >>

CommitFailKeepsSummary ==
    /\ pc = "Committing"
    /\ calls' = Append(calls, Call("BatchUpdate", FALSE, << >>, payloads))
    /\ pc' = "Failed"
    /\ err' = "batch update failed"
    /\ summary' = [summary EXCEPT !.Ranges = summaryRanges(payloads)]
    /\ UNCHANGED << workbook, sheetFilter, lookup, remote, ranges, idx, payloads,
                    fetchedVals, runNo, prevOutcome, writes, quiet,
                    prevQuiet, startRemote, resp, fnVars >>

\* batchUpdate fails
CommitFail ==
    /\ pc = "Committing"
    /\ calls' = Append(calls, Call("BatchUpdate", FALSE, << >>, payloads))
    /\ pc' = "Failed"
    /\ err' = "batch update failed"
    /\ UNCHANGED << workbook, sheetFilter, lookup, remote, ranges, idx, payloads,
                    summary, fetchedVals, runNo, prevOutcome, writes, quiet,
                    prevQuiet, startRemote, resp, fnVars >>

\* another user of the shared Google Sheet sets or clears a cell
OtherWriter ==
    /\ writes < MaxWrites
    /\ \E a \in DOMAIN remote : \E g \in RemoteGrids :
          /\ g # remote[a]
          /\ remote' = [remote EXCEPT ![a] = g]
    /\ writes' = writes + 1
    /\ quiet' = FALSE
    /\ UNCHANGED << workbook, sheetFilter, lookup, pc, ranges, idx, payloads,
                    summary, err, calls, fetchedVals, runNo, prevOutcome,
                    prevQuiet, startRemote, resp, fnVars >>

\* the updater is started again with the same configuration and workbook
StartRun ==
    /\ pc \in Terminal
    /\ runNo < MaxRuns
    /\ runNo' = runNo + 1
    /\ prevOutcome' = pc
    /\ prevQuiet' = quiet
    /\ startRemote' = remote
    /\ resp' = NoResponse
    /\ quiet' = TRUE
    /\ pc' = "Initializing"
    /\ ranges' = << >>
    /\ idx' = 0
    /\ payloads' = << >>
    /\ summary' = EmptySummary
    /\ err' = "nil"
    /\ calls' = << >>
    /\ fetchedVals' = << >>
    /\ UNCHANGED << workbook, sheetFilter, lookup, remote, writes, fnVars >>

Next ==
    \/ NewServiceOk
    \/ NewServiceFail
    \/ Scan
    \/ FetchOk
    \/ FetchFail
    \/ CommitOk
    \/ CommitFail
    \/ OtherWriter
    \/ StartRun

Spec == InitRun /\ [][Next]_vars

----------------------------------------------------------------------------
(* Specification of mergeValues as a function of its two grids.            *)

\* existing grids with fewer rows, or shorter rows, than the desired grid
ShortGridPairs ==
    { [existing |-> << << << "e" >> >> >>,
       desired  |-> << << << "d" >>, << "d" >> >>, << << "d" >> >> >>],
      [existing |-> << << << "e" >>, << " " >> >>, << >> >>,
       desired  |-> << << << "d" >>, << "\t" >> >>, << << "d" >> >> >>],
      [existing |-> << >>,
       desired  |-> << << << "d" >> >>, << << "\t" >> >> >>] }

InitMerge ==
    /\ RunIdle
    /\ arg \in [existing : GridsOf(ExistingCells), desired : GridsOf(DesiredCells)]
                  \cup ShortGridPairs
    /\ out = [merged |-> << >>, wrote |-> FALSE]
    /\ phase = "input"

CallMergeValues ==
    /\ phase = "input"
    /\ out' = mergeValues(arg.existing, arg.desired)
    /\ phase' = "output"
    /\ UNCHANGED << arg, runVars >>

SpecMerge == InitMerge /\ [][CallMergeValues]_vars

(* Specification of formatRange as a function of worksheet name and cell.  *)

InitFormat ==
    /\ RunIdle
    /\ arg \in [sheet : SheetNames, cell : CellNames]
    /\ out = << >>
    /\ phase = "input"

CallFormatRange ==
    /\ phase = "input"
    /\ out' = formatRange(arg.sheet, arg.cell)
    /\ phase' = "output"
    /\ UNCHANGED << arg, runVars >>

SpecFormat == InitFormat /\ [][CallFormatRange]_vars

(* Specification of deriveRangesFromExcel as a function of the workbook,   *)
(* the worksheet filter and the lookup value.                              *)

InitScan ==
    /\ RunIdle
    /\ arg \in [wb : ScanWorkbooks, filter : ScanFilters, lookup : ScanLookups]
    /\ out = [ranges |-> << >>, err |-> "nil"]
    /\ phase = "input"

CallDeriveRanges ==
    /\ phase = "input"
    /\ out' = deriveRangesFromExcel(arg.wb, arg.filter, arg.lookup)
    /\ phase' = "output"
    /\ UNCHANGED << arg, runVars >>

SpecScan == InitScan /\ [][CallDeriveRanges]_vars

----------------------------------------------------------------------------
(* The flag-driven command line tool: run of main.go and its merge.        *)

\* cellHasValue of main.go: the text is compared as it is
cellHasValueMain(values, row, col) ==
    IF row >= Len(values) THEN FALSE
    ELSE IF col >= Len(values[row + 1]) THEN FALSE
    ELSE Sprint(values[row + 1][col + 1]) # << >>

preserveExistingValues(existing, incoming) ==
    [ merged |->
        [ r \in 1..Len(incoming) |->
            [ c \in 1..Len(incoming[r]) |->
                IF cellHasValueMain(existing, r - 1, c - 1)
                THEN existing[r][c]
                ELSE incoming[r][c] ] ],
      wrote |->
        \E r \in 1..Len(incoming) : \E c \in 1..Len(incoming[r]) :
            /\ ~cellHasValueMain(existing, r - 1, c - 1)
            /\ Sprint(incoming[r][c]) # << >> ]

\* the matrices the given values decode to: no row ("[]"), the label, white
\* space
CliValues == { << >>, << << << "X" >> >> >>, << << << " " >> >> >> }

\* a range as the service may write it back in its own form, e.g. A1:A1
serviceForm(rng) == rng \o << ":" >> \o AfterBang(rng)

\* a range written back with the worksheet name in quotes
quotedForm(rng) ==
    IF Head(rng) = "'" THEN rng
    ELSE << "'" >> \o BeforeBang(rng) \o << "'", "!" >> \o AfterBang(rng)

\* the UpdatedRange texts the response to a batch update of ps may carry: one
\* per value range (the requested text, a form of it that the service
\* chooses, or empty),
\* possibly one response more with an empty text, or no responses at all
BatchResponses(ps) ==
    LET n      == Len(ps)
        per(i) == { ps[i].Range, << >>, serviceForm(ps[i].Range),
                    quotedForm(ps[i].Range) }
        full   == { f \in [1..n -> UNION { per(i) : i \in 1..n }] :
                       \A i \in 1..n : f[i] \in per(i) }
    IN  { << >> } \cup full \cup { Append(f, << >>) : f \in full }

ResponsePrefix == << "r", "e", "s", "p", "o", "n", "s", "e", "_" >>

\* the loop of run over resp.Responses and the fallback after it
responseRanges(responses, requestedRanges) ==
    LET named == [ i \in 1..Len(responses) |->
                     LET n   == i - 1
                         rng == IF responses[i] = << >> /\ n < Len(requestedRanges)
                                THEN requestedRanges[n + 1]
                                ELSE responses[i]
                     IN  IF rng = << >> THEN ResponsePrefix \o Itoa(n) ELSE rng ]
    IN  IF Len(named) = 0 THEN requestedRanges ELSE named

\* the workbooks whose scan in parseFlags gave target ranges
CliWorkbooks == {WbThreeCells, WbTwoSheets}

\* run between the end of the loop over the target ranges and batchUpdateValues
afterLoop(ps, requireNonEmpty) ==
    IF Len(ps) = 0
    THEN IF requireNonEmpty
         THEN [pc |-> "NothingToWrite", err |-> "nil",
               summary |-> [EmptySummary EXCEPT !.SkippedReason =
                  "require-non-empty=true and destination cells already populated"]]
         ELSE [pc |-> "Failed", err |-> "no target ranges resolved",
               summary |-> EmptySummary]
    ELSE [pc |-> "Committing", err |-> "nil", summary |-> EmptySummary]

\* the state after parseFlags: the options are valid and populateRanges has
\* derived the target ranges from the workbook
InitCli ==
    /\ workbook \in CliWorkbooks
    /\ sheetFilter \in RunFilters
    /\ lookup \in RunLookups
    /\ deriveRangesFromExcel(workbook, sheetFilter, lookup).err = "nil"
    /\ ranges = deriveRangesFromExcel(workbook, sheetFilter, lookup).ranges
    /\ remote \in [AddressesOf(workbook) -> RemoteGrids]
    /\ arg \in [loadOk : BOOLEAN, values : CliValues, requireNonEmpty : BOOLEAN]
    /\ (~arg.loadOk => arg.values = << >>)
    /\ out = << >>
    /\ phase = "cli"
    /\ pc = "Loading"
    /\ idx = 0
    /\ payloads = << >>
    /\ summary = EmptySummary
    /\ err = "nil"
    /\ calls = << >>
    /\ fetchedVals = << >>
    /\ runNo = 1
    /\ prevOutcome = "none"
    /\ writes = 0
    /\ quiet = TRUE
    /\ prevQuiet = TRUE
    /\ startRemote = remote
    /\ resp = NoResponse

\* loadMatrix fails (no data, unreadable file, JSON that does not decode) or
\* returns the decoded values; run refuses a matrix without rows
runLoadMatrix ==
    /\ pc = "Loading"
    /\ IF ~arg.loadOk
       THEN pc' = "Failed" /\ err' = "load values"
       ELSE IF Len(arg.values) = 0
       THEN pc' = "Failed" /\ err' = "no values decoded"
       ELSE pc' = "Initializing" /\ UNCHANGED err
    /\ UNCHANGED << workbook, sheetFilter, lookup, remote, ranges, idx, payloads,
                    summary, calls, fetchedVals, runNo, prevOutcome, writes, quiet,
                    prevQuiet, startRemote, resp, fnVars >>

\* newSheetsService succeeds; run then checks that there are target ranges
runNewServiceOk ==
    /\ pc = "Initializing"
    /\ calls' = Append(calls, Call("NewService", TRUE, << >>, << >>))
    /\ IF Len(ranges) = 0
       THEN pc' = "Failed" /\ err' = "no target ranges resolved"
       ELSE pc' = "Building" /\ UNCHANGED err
    /\ UNCHANGED << workbook, sheetFilter, lookup, remote, ranges, idx, payloads,
                    summary, fetchedVals, runNo, prevOutcome, writes, quiet,
                    prevQuiet, startRemote, resp, fnVars >>

\* newSheetsService fails
runNewServiceFail ==
    /\ pc = "Initializing"
    /\ calls' = Append(calls, Call("NewService", FALSE, << >>, << >>))
    /\ pc' = "Failed"
    /\ err' = "initialise Sheets service"
    /\ UNCHANGED << workbook, sheetFilter, lookup, remote, ranges, idx, payloads,
                    summary, fetchedVals, runNo, prevOutcome, writes, quiet,
                    prevQuiet, startRemote, resp, fnVars >>

\* one turn of the loop over the target ranges with require-non-empty=false:
\* the values are sent as they are
runTurnUnchecked ==
    /\ pc = "Building"
    /\ ~arg.requireNonEmpty
    /\ idx < Len(ranges)
    /\ LET ps   == appendPayload(payloads, ranges[idx + 1], arg.values)
           next == afterLoop(ps, arg.requireNonEmpty)
       IN  /\ payloads' = ps
           /\ idx' = idx + 1
           /\ IF idx + 1 = Len(ranges)
              THEN pc' = next.pc /\ err' = next.err /\ summary' = next.summary
              ELSE UNCHANGED << pc, err, summary >>
    /\ UNCHANGED << workbook, sheetFilter, lookup, remote, ranges, calls,
                    fetchedVals, runNo, prevOutcome, writes, quiet, prevQuiet,
                    startRemote, resp, fnVars >>

\* one turn of the loop with require-non-empty=true whose fetchRangeValues
\* succeeds
runFetchOk ==
    /\ pc = "Building"
    /\ arg.requireNonEmpty
    /\ idx < Len(ranges)
    /\ LET rng      == ranges[idx + 1]
           existing == remote[rng]
           m        == preserveExistingValues(existing, arg.values)
           ps       == IF m.wrote THEN appendPayload(payloads, rng, m.merged)
                       ELSE payloads
           next     == afterLoop(ps, arg.requireNonEmpty)
       IN  /\ calls' = Append(calls, Call("Get", TRUE, rng, << >>))
           /\ fetchedVals' = Append(fetchedVals, existing)
           /\ payloads' = ps
           /\ idx' = idx + 1
           /\ IF idx + 1 = Len(ranges)
              THEN pc' = next.pc /\ err' = next.err /\ summary' = next.summary
              ELSE UNCHANGED << pc, err, summary >>
    /\ UNCHANGED << workbook, sheetFilter, lookup, remote, ranges, runNo,
                    prevOutcome, writes, quiet, prevQuiet, startRemote, resp, fnVars >>

\* one turn of the loop with require-non-empty=true whose fetchRangeValues fails
runFetchFail ==
    /\ pc = "Building"
    /\ arg.requireNonEmpty
    /\ idx < Len(ranges)
    /\ calls' = Append(calls, Call("Get", FALSE, ranges[idx + 1], << >>))
    /\ payloads' = << >>
    /\ pc' = "Failed"
    /\ err' = "precondition failed"
    /\ UNCHANGED << workbook, sheetFilter, lookup, remote, ranges, idx, summary,
                    fetchedVals, runNo, prevOutcome, writes, quiet, prevQuiet,
                    startRemote, resp, fnVars >>

\* batchUpdateValues succeeds: the Google Sheet stores the batch and answers
\* with its totals and one UpdatedRange per response; run fills the summary
\* from the response, falling back on the requested ranges
runCommitOk ==
    /\ pc = "Committing"
    /\ calls' = Append(calls, Call("BatchUpdate", TRUE, << >>, payloads))
    /\ remote' = ApplyBatch(remote, payloads)
    /\ \E t \in ServiceTotals(payloads) :
       \E responses \in BatchResponses(payloads) :
          /\ resp' = [TotalUpdatedCells |-> t.TotalUpdatedCells,
                      TotalUpdatedRows  |-> t.TotalUpdatedRows,
                      Responses         |-> responses]
          /\ summary' = [summary EXCEPT
                           !.TotalCells = resp'.TotalUpdatedCells,
                           !.TotalRows = resp'.TotalUpdatedRows,
                           !.Ranges = responseRanges(resp'.Responses,
                                                     summaryRanges(payloads))]
    /\ pc' = "Done"
    /\ UNCHANGED << workbook, sheetFilter, lookup, ranges, idx, payloads, err,
                    fetchedVals, runNo, prevOutcome, writes, quiet, prevQuiet,
                    startRemote, fnVars >>

\* batchUpdateValues fails
runCommitFail ==
    /\ pc = "Committing"
    /\ calls' = Append(calls, Call("BatchUpdate", FALSE, << >>, payloads))
    /\ pc' = "Failed"
    /\ err' = "batch update failed"
    /\ UNCHANGED << workbook, sheetFilter, lookup, remote, ranges, idx, payloads,
                    summary, fetchedVals, runNo, prevOutcome, writes, quiet,
                    prevQuiet, startRemote, resp, fnVars >>

NextCli ==
    \/ runLoadMatrix
    \/ runNewServiceOk
    \/ runNewServiceFail
    \/ runTurnUnchecked
    \/ runFetchOk
    \/ runFetchFail
    \/ runCommitOk
    \/ runCommitFail

SpecCli == InitCli /\ [][NextCli]_vars

----------------------------------------------------------------------------
(* The updater's main: Load, Validate, logger.New, then Update.            *)

ValidateNoTrim(c, statOk) ==
    [ cfg |-> c,
      err |-> IF c.SpreadsheetID = << >> THEN "spreadsheet_id is required"
              ELSE IF c.LookupValue = << >> THEN "lookup_value is required"
              ELSE IF ~statOk THEN "access workbook"
              ELSE "nil" ]

\* Config.Validate: the configuration after the call and the error returned;
\* statOk says whether os.Stat(DefaultWorkbook) succeeds
Validate(c, statOk) ==
    LET t == [ SpreadsheetID |-> TrimSpace(c.SpreadsheetID),
               SheetFilter   |-> TrimSpace(c.SheetFilter),
               LookupValue   |-> TrimSpace(c.LookupValue) ]
    IN  [ cfg |-> t,
          err |-> IF t.SpreadsheetID = << >> THEN "spreadsheet_id is required"
                  ELSE IF t.LookupValue = << >> THEN "lookup_value is required"
                  ELSE IF ~statOk THEN "access workbook"
                  ELSE "nil" ]

ValidateErrors ==
    {"spreadsheet_id is required", "lookup_value is required", "access workbook"}

\* the configurations a file or the prompt may give
RawSpreadsheetIDs == { << >>, << " " >>, << " ", "i" >> }
RawSheetFilters   == { << >>, << " " >> \o NameS2 }
RawLookupValues   == { << >>, << "\t" >>, << "X", " " >> }

InitMain ==
    /\ workbook \in RunWorkbooks
    /\ arg \in [cfg : [SpreadsheetID : RawSpreadsheetIDs,
                       SheetFilter : RawSheetFilters,
                       LookupValue : RawLookupValues],
                statOk : BOOLEAN]
    /\ (workbook.openOk => arg.statOk)
    /\ remote \in [AddressesOf(workbook) -> RemoteGrids]
    /\ out = << >>
    /\ phase = "main"
    /\ pc = "LoadingConfig"
    /\ sheetFilter = << >>
    /\ lookup = << >>
    /\ ranges = << >>
    /\ idx = 0
    /\ payloads = << >>
    /\ summary = EmptySummary
    /\ err = "nil"
    /\ calls = << >>
    /\ fetchedVals = << >>
    /\ runNo = 1
    /\ prevOutcome = "none"
    /\ writes = 0
    /\ quiet = TRUE
    /\ prevQuiet = TRUE
    /\ startRemote = remote
    /\ resp = NoResponse

\* config.Load returns the configuration
mainLoadOk ==
    /\ pc = "LoadingConfig"
    /\ out' = arg.cfg
    /\ pc' = "Validating"
    /\ UNCHANGED << workbook, sheetFilter, lookup, remote, ranges, idx, payloads,
                    summary, err, calls, fetchedVals, runNo, prevOutcome, writes,
                    quiet, prevQuiet, startRemote, resp, arg, phase >>

\* config.Load fails (the file cannot be read or parsed): exitErr
mainLoadFail ==
    /\ pc = "LoadingConfig"
    /\ pc' = "Exited"
    /\ err' = "load config"
    /\ UNCHANGED << workbook, sheetFilter, lookup, remote, ranges, idx, payloads,
                    summary, calls, fetchedVals, runNo, prevOutcome, writes,
                    quiet, prevQuiet, startRemote, resp, fnVars >>

\* cfg.Validate(): on an error main calls exitErr
mainValidate ==
    /\ pc = "Validating"
    /\ LET v == Validate(out, arg.statOk)
       IN  /\ out' = v.cfg
           /\ IF v.err # "nil"
              THEN pc' = "Exited" /\ err' = v.err
              ELSE pc' = "StartingLogger" /\ UNCHANGED err
    /\ UNCHANGED << workbook, sheetFilter, lookup, remote, ranges, idx, payloads,
                    summary, calls, fetchedVals, runNo, prevOutcome, writes,
                    quiet, prevQuiet, startRemote, resp, arg, phase >>

\* logger.New succeeds and main calls sheetops.Update with the configuration
mainLoggerOk ==
    /\ pc = "StartingLogger"
    /\ sheetFilter' = out.SheetFilter
    /\ lookup' = out.LookupValue
    /\ pc' = "Initializing"
    /\ UNCHANGED << workbook, remote, ranges, idx, payloads, summary, err, calls,
                    fetchedVals, runNo, prevOutcome, writes, quiet, prevQuiet,
                    startRemote, resp, fnVars >>

\* logger.New fails: exitErr
mainLoggerFail ==
    /\ pc = "StartingLogger"
    /\ pc' = "Exited"
    /\ err' = "initialise logger"
    /\ UNCHANGED << workbook, sheetFilter, lookup, remote, ranges, idx, payloads,
                    summary, calls, fetchedVals, runNo, prevOutcome, writes,
                    quiet, prevQuiet, startRemote, resp, fnVars >>

NextMain ==
    \/ mainLoadOk
    \/ mainLoadFail
    \/ mainValidate
    \/ mainLoggerOk
    \/ mainLoggerFail
    \/ NewServiceOk
    \/ NewServiceFail
    \/ Scan
    \/ FetchOk
    \/ FetchFail
    \/ CommitOk
    \/ CommitFail

SpecMain == InitMain /\ [][NextMain]_vars

----------------------------------------------------------------------------
(* Specification of the two merge variants applied to the same two grids.  *)

NoMerge == [merged |-> << >>, wrote |-> FALSE]

InitVariants ==
    /\ RunIdle
    /\ arg \in [existing : GridsOf(ExistingCells), desired : GridsOf(DesiredCells)]
    /\ out = [main |-> NoMerge, sheets |-> NoMerge]
    /\ phase = "input"

CallPreserveExistingValues ==
    /\ phase = "input"
    /\ out' = [out EXCEPT !.main = preserveExistingValues(arg.existing, arg.desired)]
    /\ phase' = "preserved"
    /\ UNCHANGED << arg, runVars >>

CallMergeValuesToo ==
    /\ phase = "preserved"
    /\ out' = [out EXCEPT !.sheets = mergeValues(arg.existing, arg.desired)]
    /\ phase' = "output"
    /\ UNCHANGED << arg, runVars >>

NextVariants ==
    \/ CallPreserveExistingValues
    \/ CallMergeValuesToo

SpecVariants == InitVariants /\ [][NextVariants]_vars

----------------------------------------------------------------------------
(* config.Write: copy the workbook into place, validate, write config.yaml. *)

EmptyConfig == [SpreadsheetID |-> << >>, SheetFilter |-> << >>, LookupValue |-> << >>]

\* a file: absent, holding what it held before the call, cut short by a
\* failed write, or holding the configuration in data
File(state, data) == [state |-> state, data |-> data]

\* what copyFile leaves at the destination when it succeeds: the source's
\* bytes, or nothing when the source is the destination itself, which
\* os.Create has emptied before io.Copy reads it
copyFile(src) == IF src = "same" THEN "empty" ELSE "new"

\* the workbook sources: none given, a readable other file, a file that
\* cannot be opened, the destination path itself
WorkbookSources == {"none", "good", "missing", "same"}

InitWrite ==
    /\ RunIdle
    /\ arg \in [cfg : [SpreadsheetID : RawSpreadsheetIDs,
                       SheetFilter : RawSheetFilters,
                       LookupValue : RawLookupValues],
                src : WorkbookSources,
                config0 : {File("missing", EmptyConfig), File("old", EmptyConfig)},
                workbook0 : {"missing", "old"}]
    /\ out = [config |-> arg.config0, workbook |-> arg.workbook0, err |-> "nil"]
    /\ phase = "copy"

\* workbookSource == "": nothing is copied
WriteSkipCopy ==
    /\ phase = "copy"
    /\ arg.src = "none"
    /\ phase' = "validate"
    /\ UNCHANGED << arg, out, runVars >>

\* copyFile succeeds
WriteCopyOk ==
    /\ phase = "copy"
    /\ arg.src = "good" \/ (arg.src = "same" /\ out.workbook # "missing")
    /\ out' = [out EXCEPT !.workbook = copyFile(arg.src)]
    /\ phase' = "validate"
    /\ UNCHANGED << arg, runVars >>

\* copyFile fails in os.Open, os.MkdirAll or os.Create: nothing is written
WriteCopyFailBefore ==
    /\ phase = "copy"
    /\ arg.src # "none"
    /\ out' = [out EXCEPT !.err = "copy workbook"]
    /\ phase' = "failed"
    /\ UNCHANGED << arg, runVars >>

\* copyFile fails in io.Copy or Sync, after os.Create has emptied the
\* destination
WriteCopyFailAfterCreate ==
    /\ phase = "copy"
    /\ arg.src = "good" \/ (arg.src = "same" /\ out.workbook # "missing")
    /\ out' = [out EXCEPT !.workbook = "partial", !.err = "copy workbook"]
    /\ phase' = "failed"
    /\ UNCHANGED << arg, runVars >>

\* cfg.Validate() on Write's copy of the configuration
WriteValidate ==
    /\ phase = "validate"
    /\ LET v == Validate(arg.cfg, out.workbook # "missing")
       IN  IF v.err # "nil"
           THEN out' = [out EXCEPT !.err = v.err] /\ phase' = "failed"
           ELSE UNCHANGED out /\ phase' = "write"
    /\ UNCHANGED << arg, runVars >>

\* os.MkdirAll, yaml.Marshal and os.WriteFile succeed
WriteFileOk ==
    /\ phase = "write"
    /\ out' = [out EXCEPT !.config =
                  File("written", Validate(arg.cfg, TRUE).cfg)]
    /\ phase' = "done"
    /\ UNCHANGED << arg, runVars >>

\* os.MkdirAll fails, or os.WriteFile cannot open the file
WriteFileFailBefore ==
    /\ phase = "write"
    /\ out' = [out EXCEPT !.err = "write config"]
    /\ phase' = "failed"
    /\ UNCHANGED << arg, runVars >>

\* os.WriteFile fails after it has opened the file with O_TRUNC
WriteFileFailAfterTruncate ==
    /\ phase = "write"
    /\ out' = [out EXCEPT !.config = File("partial", EmptyConfig),
                          !.err = "write config"]
    /\ phase' = "failed"
    /\ UNCHANGED << arg, runVars >>

NextWrite ==
    \/ WriteSkipCopy
    \/ WriteCopyOk
    \/ WriteCopyFailBefore
    \/ WriteCopyFailAfterCreate
    \/ WriteValidate
    \/ WriteFileOk
    \/ WriteFileFailBefore
    \/ WriteFileFailAfterTruncate

SpecWrite == InitWrite /\ [][NextWrite]_vars

----------------------------------------------------------------------------
(* Claims about mergeValues.                                               *)

SameShape(E, D) ==
    /\ Len(E) = Len(D)
    /\ \A r \in 1..Len(D) : Len(E[r]) = Len(D[r])

NonBlank(text) == TrimSpace(text) # << >>

\* C1: non-destructive merge.  For grids E and D of equal shape, at every
\* position where E is non-blank after trimming, the merged grid holds E's
\* value.
C1_NonDestructiveMerge ==
    (phase = "output" /\ SameShape(arg.existing, arg.desired)) =>
        \A r \in 1..Len(arg.desired) : \A c \in 1..Len(arg.desired[r]) :
            NonBlank(arg.existing[r][c]) =>
                /\ r \in DOMAIN out.merged
                /\ c \in DOMAIN out.merged[r]
                /\ out.merged[r][c] = arg.existing[r][c]

\* C1 witness: a merge of equal-shaped grids was computed in which a
\* non-blank existing cell faces a different, non-blank desired value.
C1_Witness ==
    /\ phase = "output"
    /\ SameShape(arg.existing, arg.desired)
    /\ \E r \in 1..Len(arg.desired) : \E c \in 1..Len(arg.desired[r]) :
            /\ NonBlank(arg.existing[r][c])
            /\ NonBlank(arg.desired[r][c])
            /\ arg.desired[r][c] # arg.existing[r][c]

----------------------------------------------------------------------------
(* Claims about formatRange.                                               *)

\* number of single quotes in a text
RECURSIVE CountQuotes(_)
CountQuotes(s) ==
    IF s = << >> THEN 0
    ELSE (IF Head(s) = "'" THEN 1 ELSE 0) + CountQuotes(Tail(s))

\* reading a quoted worksheet name back: every doubled quote is one quote;
\* << "?" >> marks a quote that is not doubled
RECURSIVE Unquote(_)
Unquote(s) ==
    IF s = << >> THEN << >>
    ELSE IF Head(s) # "'" THEN << Head(s) >> \o Unquote(Tail(s))
    ELSE IF Len(s) >= 2 /\ s[2] = "'" THEN << "'" >> \o Unquote(Tail(Tail(s)))
    ELSE << "?" >>

NeedsQuoting(sheet) ==
    \E i \in 1..Len(sheet) : sheet[i] = " " \/ sheet[i] = "!" \/ sheet[i] = "'"

\* C9: address quoting.  A worksheet name with a space, "!" or "'" is put in
\* single quotes with every inner quote doubled, any other name is used bare;
\* the cell follows after "!".  The three examples of the design hold.
C9_AddressQuoting ==
    phase = "output" =>
        LET n == Len(arg.sheet)
            q == CountQuotes(arg.sheet)
            k == Len(arg.cell)
        IN  /\ NeedsQuoting(arg.sheet) =>
                /\ Len(out) = n + q + 3 + k
                /\ out[1] = "'"
                /\ Unquote(SubSeq(out, 2, n + q + 1)) = arg.sheet
                /\ SubSeq(out, n + q + 2, Len(out)) = << "'", "!" >> \o arg.cell
            /\ ~NeedsQuoting(arg.sheet) =>
                /\ Len(out) = n + 1 + k
                /\ SubSeq(out, 1, n) = arg.sheet
                /\ SubSeq(out, n + 1, Len(out)) = << "!" >> \o arg.cell
            /\ (arg.sheet = SheetOne /\ arg.cell = << "A", "1" >>) =>
                out = << "'", "S", "h", "e", "e", "t", " ", "O", "n", "e", "'",
                         "!", "A", "1" >>
            /\ (arg.sheet = Sheet1 /\ arg.cell = << "C", "2" >>) =>
                out = << "S", "h", "e", "e", "t", "1", "!", "C", "2" >>
            /\ (arg.sheet = OBriens /\ arg.cell = << "A", "1" >>) =>
                out = << "'", "O", "'", "'", "B", "r", "i", "e", "n", "'", "'",
                         "s", "'", "!", "A", "1" >>

\* C9 witness: the worksheet name O'Brien's was formatted for cell A1.
C9_Witness ==
    /\ phase = "output"
    /\ arg.sheet = OBriens
    /\ arg.cell = << "A", "1" >>
    /\ Len(out) = 16

----------------------------------------------------------------------------
(* Claims about the scan.                                                  *)

\* C6: match completeness.  With an empty filter the scan returns exactly
\* one address for every matching cell of every worksheet: as many results
\* as occurrences, every occurrence among them, none twice.
C6_MatchCompleteness ==
    (phase = "output" /\ arg.filter = << >> /\ Readable(arg.wb, << >>)) =>
        LET T == MatchCells(arg.wb, << >>, arg.lookup)
        IN  /\ Len(out.ranges) = Cardinality(T)
            /\ \A t \in T : \E k \in 1..Len(out.ranges) :
                    out.ranges[k] = AddressOf(arg.wb, t)
            /\ \A j, k \in 1..Len(out.ranges) :
                    out.ranges[j] = out.ranges[k] => j = k

\* C6 witness: a scan without filter of a workbook in which the label occurs
\* twice in the first worksheet and again in the second.
C6_Witness ==
    /\ phase = "output"
    /\ arg.filter = << >>
    /\ Readable(arg.wb, << >>)
    /\ \E t, u, v \in MatchCells(arg.wb, << >>, arg.lookup) :
            t[1] = 1 /\ u[1] = 1 /\ t # u /\ v[1] = 2
    /\ Len(out.ranges) >= 3

\* C7: the result of a successful scan lists the matching cells by worksheet
\* order, then row, then column: the address of a matching cell stands at the
\* position given by the number of matching cells before it.
C7_ScanOrder ==
    (phase = "output" /\ out.err = "nil") =>
        LET T == MatchCells(arg.wb, arg.filter, arg.lookup)
        IN  \A t \in T :
                LET rank == 1 + Cardinality({ u \in T : Before(u, t) })
                IN  /\ rank <= Len(out.ranges)
                    /\ out.ranges[rank] = AddressOf(arg.wb, t)

\* C7 witness: a successful scan with matches in two rows of the first
\* worksheet, two of them in one row, and a match in the second worksheet.
C7_Witness ==
    /\ phase = "output"
    /\ out.err = "nil"
    /\ \E t, u, v, w \in MatchCells(arg.wb, arg.filter, arg.lookup) :
            /\ t[1] = 1 /\ u[1] = 1 /\ v[1] = 1 /\ w[1] = 2
            /\ t[2] = u[2] /\ t[3] < u[3]
            /\ v[2] > t[2]

\* C10: a scan of a readable workbook in which no cell of a candidate
\* worksheet matches the label fails with NotFound and returns no address;
\* no scan returns an empty result without an error.
C10_NotFound ==
    phase = "output" =>
        /\ (Readable(arg.wb, arg.filter)
                /\ MatchCells(arg.wb, arg.filter, arg.lookup) = {}) =>
              (out.err \in NotFound /\ out.ranges = << >>)
        /\ out.ranges = << >> => out.err # "nil"
        /\ out.err # "nil" => out.ranges = << >>

\* C10 witness: a scan without filter of a readable workbook with cells but
\* no occurrence of the label, which failed with "value not found".
C10_Witness ==
    /\ phase = "output"
    /\ arg.filter = << >>
    /\ Readable(arg.wb, << >>)
    /\ \E r \in 1..Len(arg.wb.sheets[1].rows) : Len(arg.wb.sheets[1].rows[r]) > 0
    /\ MatchCells(arg.wb, << >>, arg.lookup) = {}
    /\ out.err = "value not found"

----------------------------------------------------------------------------
(* Claims about the run of Update.                                         *)

\* a single-cell grid fetched from the Google Sheet holds data
HoldsData(grid) ==
    /\ Len(grid) >= 1
    /\ Len(grid[1]) >= 1
    /\ NonBlank(grid[1][1])

BatchIssued == \E i \in 1..Len(calls) : calls[i].op = "BatchUpdate"

\* C2: idempotence.  A run that follows a run that ended in Done, with no
\* other user writing to the Google Sheet during either run or between them,
\* builds no payload and issues no batch update; it ends in NothingToWrite
\* unless one of its own remote calls fails.
C2_Idempotence ==
    (runNo >= 2 /\ prevOutcome = "Done" /\ prevQuiet /\ quiet) =>
        /\ payloads = << >>
        /\ pc \notin {"Committing", "Done"}
        /\ ~BatchIssued
        /\ pc \in Terminal =>
              \/ /\ pc = "NothingToWrite"
                 /\ err = "nil"
                 /\ summary.SkippedReason = "all target cells already contain data"
              \/ /\ pc = "Failed"
                 /\ err \in {"initialise Sheets service", "precondition failed"}
                 /\ ~calls[Len(calls)].ok

\* C2 witness: the second of two undisturbed runs, the first of which ended
\* in Done, has ended in NothingToWrite.
C2_Witness ==
    /\ runNo = 2
    /\ prevOutcome = "Done"
    /\ prevQuiet
    /\ quiet
    /\ pc = "NothingToWrite"
    /\ Len(fetchedVals) >= 2

\* C3: existing data of the Google Sheet is never overwritten, also when the
\* sheet is shared: a commit leaves every cell that holds data at the time of
\* the commit as it is.
C3_NeverOverwritesSharedRemote ==
    [][ (pc = "Committing" /\ pc' = "Done") =>
            \A a \in DOMAIN remote :
                HoldsData(remote[a]) => remote'[a] = remote[a] ]_vars

\* C4: when every fetch succeeded and no payload was built, the run has ended
\* in NothingToWrite: no error, the skip reason set, no ranges, zero counts,
\* and no batch update among the calls of the run.
C4_NothingToWrite ==
    ( /\ pc \notin {"Idle", "Initializing", "Scanning", "Fetching"}
      /\ Len(ranges) >= 1
      /\ Len(fetchedVals) = Len(ranges)
      /\ \A i \in 1..Len(calls) : calls[i].op = "Get" => calls[i].ok
      /\ payloads = << >> ) =>
        /\ pc = "NothingToWrite"
        /\ err = "nil"
        /\ summary = [Ranges |-> << >>, TotalCells |-> 0, TotalRows |-> 0,
                      SkippedReason |-> "all target cells already contain data"]
        /\ ~BatchIssued

\* C4 witness: a run ended in NothingToWrite after fetching two or more
\* cells that all hold data.
C4_Witness ==
    /\ pc = "NothingToWrite"
    /\ Len(fetchedVals) >= 2
    /\ Len(fetchedVals) = Len(ranges)
    /\ \A i \in 1..Len(fetchedVals) : HoldsData(fetchedVals[i])

\* C5: a failed fetch is the last remote call of its run: the run has ended
\* in Failed with the fetch error and an empty summary, no later address is
\* fetched and no batch update is issued, whatever was fetched before.
C5_FetchFailureAborts ==
    \A i \in 1..Len(calls) :
        (calls[i].op = "Get" /\ ~calls[i].ok) =>
            /\ i = Len(calls)
            /\ pc = "Failed"
            /\ err = "precondition failed"
            /\ summary = EmptySummary
            /\ ~BatchIssued
            /\ Len(fetchedVals) = idx
            /\ calls[i].rng = ranges[idx + 1]

\* C5 witness: a run failed at its second or a later fetch after an earlier
\* fetch had found a blank cell, for which a payload had been built.
C5_Witness ==
    /\ pc = "Failed"
    /\ err = "precondition failed"
    /\ Len(fetchedVals) >= 1
    /\ Len(fetchedVals) < Len(ranges)
    /\ ~HoldsData(fetchedVals[1])

RECURSIVE IsSubsequence(_, _)
IsSubsequence(s, t) ==
    IF s = << >> THEN TRUE
    ELSE IF t = << >> THEN FALSE
    ELSE IF Head(s) = Head(t) THEN IsSubsequence(Tail(s), Tail(t))
    ELSE IsSubsequence(s, Tail(t))

\* C8: order preservation.  The addresses of the payloads, and of every batch
\* submitted, are a subsequence of the scan result in scan order; the ranges
\* of the summary of a Done run are the addresses of the submitted batch in
\* the order submitted.
C8_OrderPreserved ==
    /\ IsSubsequence([ i \in 1..Len(payloads) |-> payloads[i].Range ], ranges)
    /\ \A k \in 1..Len(calls) :
          calls[k].op = "BatchUpdate" =>
            IsSubsequence([ i \in 1..Len(calls[k].data) |-> calls[k].data[i].Range ],
                          ranges)
    /\ pc = "Done" =>
          LET batch == calls[Len(calls)]
          IN  /\ batch.op = "BatchUpdate"
              /\ Len(summary.Ranges) = Len(batch.data)
              /\ \A i \in 1..Len(batch.data) :
                    summary.Ranges[i] = batch.data[i].Range
              /\ IsSubsequence(summary.Ranges, ranges)

\* C8 witness: a Done run that wrote the first and the last of three scanned
\* addresses and skipped the one between them.
C8_Witness ==
    /\ pc = "Done"
    /\ Len(ranges) = 3
    /\ summary.Ranges = << ranges[1], ranges[3] >>

----------------------------------------------------------------------------
(* Claims about the worksheet filter.                                      *)

RangeSet(rs) == { rs[k] : k \in 1..Len(rs) }

\* C11: worksheet filter.  A filter that names a worksheet makes the scan
\* read that worksheet alone: the result holds the matches of that worksheet
\* and nothing else, and another worksheet that cannot be read does no harm.
\* A filter that names no worksheet fails with "sheet not found" whether or
\* not the worksheets can be read.  Without filter every worksheet is read.
C11_WorksheetFilter ==
    (phase = "output" /\ arg.wb.openOk) =>
        LET wb == arg.wb
            C  == Candidates(wb, arg.filter)
            T  == MatchCells(wb, arg.filter, arg.lookup)
        IN  /\ (arg.filter # << >> /\ C = {}) =>
                  (out.err = "sheet not found" /\ out.ranges = << >>)
            /\ (arg.filter # << >> /\ C # {}) =>
                  /\ Cardinality(C) = 1
                  /\ \A i \in C :
                        /\ wb.sheets[i].name = arg.filter
                        /\ ~wb.sheets[i].readOk => out.err = "read sheet"
                        /\ wb.sheets[i].readOk =>
                              /\ out.err = (IF T = {} THEN "value not found" ELSE "nil")
                              /\ RangeSet(out.ranges) =
                                    { AddressOf(wb, t) : t \in T }
                              /\ \A t \in T : t[1] = i
            /\ arg.filter = << >> =>
                  /\ (\E i \in 1..Len(wb.sheets) : ~wb.sheets[i].readOk) =>
                        out.err = "read sheet"
                  /\ (\A i \in 1..Len(wb.sheets) : wb.sheets[i].readOk) =>
                        RangeSet(out.ranges) =
                          { AddressOf(wb, t) : t \in MatchCells(wb, << >>, arg.lookup) }

\* C11 witness: a scan filtered to the second worksheet succeeded although
\* the first worksheet cannot be read.
C11_Witness ==
    /\ phase = "output"
    /\ arg.filter = NameS2
    /\ Len(arg.wb.sheets) = 2
    /\ ~arg.wb.sheets[1].readOk
    /\ out.err = "nil"
    /\ Len(out.ranges) >= 1

----------------------------------------------------------------------------
(* Further claims about the run of Update.                                 *)

\* the payloads of the run are those that buildPayloads has built
PayloadsValid ==
    \/ pc \in {"Fetching", "Committing", "Done", "NothingToWrite"}
    \/ pc = "Failed" /\ err = "batch update failed"

\* C12: per-address decision.  A fetched address has a payload exactly when
\* the fetched cell was blank after trimming or absent; every payload carries
\* the grid [[label]]; the batch submitted is the list of these payloads; and
\* dropping an address raises no error.
C12_PerAddressDecision ==
    PayloadsValid =>
        /\ \A i \in 1..Len(fetchedVals) :
              (\E k \in 1..Len(payloads) : payloads[k].Range = ranges[i])
                <=> ~HoldsData(fetchedVals[i])
        /\ \A k \in 1..Len(payloads) :
              /\ payloads[k].Values = << << lookup >> >>
              /\ \E i \in 1..Len(fetchedVals) : payloads[k].Range = ranges[i]
        /\ \A k \in 1..Len(calls) :
              calls[k].op = "BatchUpdate" => calls[k].data = payloads
        /\ pc # "Failed" => err = "nil"

\* C12 witness: a batch is about to be submitted after three fetches that
\* found a blank cell, a cell with data and a cell with white space only.
C12_Witness ==
    /\ pc = "Committing"
    /\ Len(fetchedVals) = 3
    /\ Len(payloads) = 2
    /\ \E i, j, k \in 1..3 :
          /\ fetchedVals[i] = << >>
          /\ HoldsData(fetchedVals[j])
          /\ fetchedVals[k] = << << << " " >> >> >>


BatchCalls == { k \in 1..Len(calls) : calls[k].op = "BatchUpdate" }

\* the Google Sheet of the start of the run with every payload stored at its range
WithPayloads(rem, ps) ==
    [ a \in DOMAIN rem |->
        IF \E k \in 1..Len(ps) : ps[k].Range = a
        THEN (CHOOSE v \in { ps[k].Values : k \in 1..Len(ps) } :
                 \E k \in 1..Len(ps) : ps[k].Range = a /\ ps[k].Values = v)
        ELSE rem[a] ]

\* C13: single batch. A run issues at most one batch update, and that request
\* carries all payloads of the run; the only calls a run makes are the client
\* construction, the workbook open, the gets and the batch update, and no get
\* carries data. With no other writer during the run, the Google Sheet is
\* unchanged until the run ends, equals the sheet of the run's start with every
\* payload stored when the run ends Done, and equals the sheet of the run's
\* start when the run ends NothingToWrite or Failed.
C13_SingleBatch ==
    /\ Cardinality(BatchCalls) <= 1
    /\ \A k \in 1..Len(calls) :
          /\ calls[k].op \in {"NewService", "OpenFile", "Get", "BatchUpdate"}
          /\ calls[k].op = "BatchUpdate" =>
                (calls[k].rng = << >> /\ calls[k].data = payloads /\ k = Len(calls))
          /\ calls[k].op # "BatchUpdate" => calls[k].data = << >>
    /\ (BatchCalls # {}) <=> (pc = "Done" \/ (pc = "Failed" /\ err = "batch update failed"))
    /\ quiet =>
          IF pc = "Done"
          THEN /\ remote = WithPayloads(startRemote, payloads)
               /\ \A k \in 1..Len(payloads) : remote[payloads[k].Range] = payloads[k].Values
          ELSE remote = startRemote

C13_Witness ==
    /\ pc = "Done"
    /\ quiet
    /\ Len(payloads) = 2
    /\ remote # startRemote
    /\ \E a \in DOMAIN remote : remote[a] = startRemote[a] /\ HoldsData(remote[a])


\* every kind of external call occurs at most once in the log cs, a get at most
\* once per address and only for an address of the scan result rs, and a failed
\* call is the last one
CallsOnce(cs, rs) ==
    /\ \A op \in {"NewService", "OpenFile", "BatchUpdate"} :
          Cardinality({ k \in 1..Len(cs) : cs[k].op = op }) <= 1
    /\ \A j, k \in 1..Len(cs) :
          (j # k /\ cs[j].op = "Get" /\ cs[k].op = "Get") => cs[j].rng # cs[k].rng
    /\ \A k \in 1..Len(cs) :
          cs[k].op = "Get" => \E i \in 1..Len(rs) : rs[i] = cs[k].rng
    /\ \A k \in 1..Len(cs) : ~cs[k].ok => k = Len(cs)

\* C14: single pass without retry. Every step of a run that makes an external
\* call makes exactly one, makes it while the run has not ended, and makes it
\* only if every earlier call of the run succeeded; after the step the run has
\* constructed the client at most once, opened the workbook at most once,
\* fetched each scanned address at most once and sent at most one batch update.
C14_SinglePassNoRetry ==
    [][ (runNo' = runNo /\ calls' # calls) =>
           /\ pc \notin Terminal
           /\ Len(calls') = Len(calls) + 1
           /\ SubSeq(calls', 1, Len(calls)) = calls
           /\ \A k \in 1..Len(calls) : calls[k].ok
           /\ CallsOnce(calls', ranges') ]_vars

C14_Witness ==
    /\ pc = "Failed"
    /\ err = "precondition failed"
    /\ Len(ranges) = 3
    /\ Len(calls) = 4
    /\ calls[3].op = "Get" /\ calls[3].ok
    /\ calls[4].op = "Get" /\ ~calls[4].ok


\* C15: the updater refuses to overwrite blank ranges. Every payload of a run,
\* and so every value range of its batch update, is for an address whose
\* fetched value held data, and an address fetched empty or blank has no
\* payload.
C15_RefusesBlankRanges ==
    PayloadsValid =>
       /\ \A i \in 1..Len(fetchedVals) :
             ~HoldsData(fetchedVals[i]) =>
                 ~\E k \in 1..Len(payloads) : payloads[k].Range = ranges[i]
       /\ \A k \in 1..Len(calls) :
             calls[k].op = "BatchUpdate" =>
                 \A j \in 1..Len(calls[k].data) :
                    \E i \in 1..Len(fetchedVals) :
                       /\ ranges[i] = calls[k].data[j].Range
                       /\ HoldsData(fetchedVals[i])


\* some cell of the grid holds a text that is not empty
RangeHasData(grid) ==
    \E r \in 1..Len(grid) : \E c \in 1..Len(grid[r]) : grid[r][c] # << >>

\* C16: require-non-empty. In a run of the command line tool with
\* require-non-empty = true a target range is put into the batch only when the
\* Google Sheet held data at that range when it was fetched; a range fetched
\* empty has no payload and is in no batch update.
C16_RequireNonEmpty ==
    (phase = "cli" /\ arg.requireNonEmpty) =>
       /\ \A i \in 1..Len(fetchedVals) :
             ~RangeHasData(fetchedVals[i]) =>
                 ~\E k \in 1..Len(payloads) : payloads[k].Range = ranges[i]
       /\ \A k \in 1..Len(calls) :
             calls[k].op = "BatchUpdate" =>
                 \A j \in 1..Len(calls[k].data) :
                    \E i \in 1..Len(fetchedVals) :
                       /\ ranges[i] = calls[k].data[j].Range
                       /\ RangeHasData(fetchedVals[i])


ScanDone == \E k \in 1..Len(calls) : calls[k].op = "OpenFile"

\* C17: NotFound and NothingToWrite are distinct. A run is in NothingToWrite
\* only if its scan returned at least one address, every address was fetched
\* and every fetched value held data. A run whose scan has found no matching
\* cell is Failed with an error, has no skipped reason and has made no remote
\* get or batch update.
C17_NotFoundIsNotNothingToWrite ==
    /\ pc = "NothingToWrite" =>
          /\ Len(ranges) >= 1
          /\ MatchCells(workbook, sheetFilter, lookup) # {}
          /\ Len(fetchedVals) = Len(ranges)
          /\ \A i \in 1..Len(fetchedVals) : HoldsData(fetchedVals[i])
          /\ err = "nil"
          /\ summary.SkippedReason # ""
    /\ (ScanDone /\ MatchCells(workbook, sheetFilter, lookup) = {}) =>
          /\ pc = "Failed"
          /\ err \in {"open config workbook", "read sheet"} \cup NotFound
          /\ summary.SkippedReason = ""
          /\ \A k \in 1..Len(calls) : calls[k].op \notin {"Get", "BatchUpdate"}

C17_Witness ==
    /\ ScanDone
    /\ workbook.openOk
    /\ Readable(workbook, sheetFilter)
    /\ Candidates(workbook, sheetFilter) # {}
    /\ MatchCells(workbook, sheetFilter, lookup) = {}
    /\ pc = "Failed"
    /\ err = "value not found"

\* C18: every error aborts the whole run. The run is Failed exactly when it
\* has an error, and then its summary is empty; client construction, scan,
\* fetch and commit failures all end the run so. A summary with ranges or a
\* skipped reason goes with no error, and no summary has both.
C18_ErrorsAbortWithEmptySummary ==
    /\ (pc = "Failed") <=> (err # "nil")
    /\ pc = "Failed" => summary = EmptySummary
    /\ \A k \in 1..Len(calls) : ~calls[k].ok => pc = "Failed"
    /\ (ScanDone /\ deriveRangesFromExcel(workbook, sheetFilter, lookup).err # "nil")
          => pc = "Failed"
    /\ (summary.Ranges # << >> \/ summary.SkippedReason # "") =>
          (err = "nil" /\ pc \in {"Done", "NothingToWrite"})
    /\ ~(summary.Ranges # << >> /\ summary.SkippedReason # "")

C18_Witness ==
    /\ pc = "Failed"
    /\ err = "batch update failed"
    /\ Len(payloads) = 2
    /\ Len(fetchedVals) = 3
    /\ summary = EmptySummary


Trimmed(text) == TrimSpace(text) = text

\* Validate has returned in this run of main
Validated ==
    /\ pc \notin {"LoadingConfig", "Validating"}
    /\ ~(pc = "Exited" /\ err = "load config")

\* the spreadsheet id or the lookup value of the loaded configuration is empty
\* after trimming, or the workbook cannot be accessed
MustReject ==
    \/ TrimSpace(arg.cfg.SpreadsheetID) = << >>
    \/ TrimSpace(arg.cfg.LookupValue) = << >>
    \/ ~arg.statOk

\* C19: configuration validation. Once Validate has returned, main has exited
\* with a validation error exactly when the loaded spreadsheet id or lookup
\* value is empty after trimming or the workbook cannot be accessed, and then
\* no call of Update was made; otherwise the spreadsheet id and the lookup
\* value of the configuration are the trimmed loaded texts and are not empty,
\* and Update works with them. No external call is made before Update starts.
C19_ConfigValidation ==
    phase = "main" =>
       /\ pc \in {"LoadingConfig", "Validating", "StartingLogger", "Exited"}
             => calls = << >>
       /\ Validated =>
             /\ MustReject <=> (pc = "Exited" /\ err \in ValidateErrors)
             /\ ~MustReject =>
                   /\ out.SpreadsheetID = TrimSpace(arg.cfg.SpreadsheetID)
                   /\ out.LookupValue = TrimSpace(arg.cfg.LookupValue)
                   /\ out.SpreadsheetID # << >> /\ Trimmed(out.SpreadsheetID)
                   /\ out.LookupValue # << >> /\ Trimmed(out.LookupValue)
       /\ calls # << >> =>
             /\ Validated /\ ~MustReject
             /\ lookup = out.LookupValue
             /\ sheetFilter = out.SheetFilter

C19_Witness ==
    /\ phase = "main"
    /\ pc = "Exited"
    /\ err = "lookup_value is required"
    /\ arg.cfg.LookupValue = << "\t" >>
    /\ arg.cfg.SpreadsheetID = << " ", "i" >>
    /\ arg.statOk
    /\ calls = << >>


WhiteSpaceOnly(text) == text # << >> /\ TrimSpace(text) = << >>

\* C20: blankness is decided by trimmed text in both merge variants. For the
\* same two grids, preserveExistingValues of main.go and mergeValues of
\* sheets/update.go return the same merged grid and the same flag; an existing
\* cell of white space only does not block the write in either, and desired
\* grids of white space only set the flag in neither.
C20_VariantsAgreeOnBlank ==
    phase = "output" =>
       /\ out.main = out.sheets
       /\ \A r \in 1..Len(arg.desired) : \A c \in 1..Len(arg.desired[r]) :
             (/\ r <= Len(arg.existing)
              /\ c <= Len(arg.existing[r])
              /\ WhiteSpaceOnly(arg.existing[r][c]))
                => /\ out.main.merged[r][c] = arg.desired[r][c]
                   /\ out.sheets.merged[r][c] = arg.desired[r][c]
       /\ (\A r \in 1..Len(arg.desired) : \A c \in 1..Len(arg.desired[r]) :
              ~NonBlank(arg.desired[r][c]))
             => (~out.main.wrote /\ ~out.sheets.wrote)


----------------------------------------------------------------------------
(* Further claims about mergeValues.                                       *)

\* the grid has no cell at row r, column c (counted from 1)
Absent(E, r, c) == r > Len(E) \/ c > Len(E[r])

\* C21: ragged or short existing grids. Whatever the shape of the existing
\* grid, every position at which the merge evaluates existing[r][c] lies
\* inside the existing grid, and at every position of the desired grid that
\* the existing grid does not have the merged cell is the desired value.
C21_RaggedExisting ==
    phase = "output" =>
       /\ \A p \in mergeValuesIndexes(arg.existing, arg.desired) :
             /\ p[1] >= 0 /\ p[1] < Len(arg.existing)
             /\ p[2] >= 0 /\ p[2] < Len(arg.existing[p[1] + 1])
       /\ \A r \in 1..Len(arg.desired) : \A c \in 1..Len(arg.desired[r]) :
             Absent(arg.existing, r, c) =>
                /\ r \in DOMAIN out.merged
                /\ c \in DOMAIN out.merged[r]
                /\ out.merged[r][c] = arg.desired[r][c]

C21_Witness ==
    /\ phase = "output"
    /\ Len(arg.desired) = 2
    /\ Len(arg.existing) = 1
    /\ Len(arg.existing[1]) < Len(arg.desired[1])
    /\ NonBlank(arg.existing[1][1])
    /\ out.merged[1][1] = arg.existing[1][1]
    /\ out.merged[1][2] = arg.desired[1][2]
    /\ out.merged[2] = arg.desired[2]


\* C22: merge shape. The merged grid has as many rows as the desired grid and
\* each merged row as many cells as the desired row, whatever the shape of
\* the existing grid; an empty desired grid gives an empty grid and no write.
C22_MergeShape ==
    phase = "output" =>
       /\ Len(out.merged) = Len(arg.desired)
       /\ \A r \in 1..Len(arg.desired) : Len(out.merged[r]) = Len(arg.desired[r])
       /\ arg.desired = << >> => (out.merged = << >> /\ ~out.wrote)

C22_Witness ==
    /\ phase = "output"
    /\ Len(arg.desired) = 1
    /\ Len(arg.desired[1]) = 1
    /\ Len(arg.existing) = 1
    /\ Len(arg.existing[1]) = 2
    /\ NonBlank(arg.existing[1][2])
    /\ Len(out.merged) = 1
    /\ Len(out.merged[1]) = 1

\* the existing grid has no cell at row r, column c, or the cell is blank
\* after trimming
BlankOrAbsent(E, r, c) == Absent(E, r, c) \/ ~NonBlank(E[r][c])

\* C23: the flag of the merge is true exactly when at some position of the
\* desired grid the existing grid is blank or absent and the desired value is
\* not blank after trimming; at every position where the existing grid is
\* blank or absent the merged cell is the desired value.
C23_WroteAnything ==
    phase = "output" =>
       /\ out.wrote <=>
             \E r \in 1..Len(arg.desired) : \E c \in 1..Len(arg.desired[r]) :
                BlankOrAbsent(arg.existing, r, c) /\ NonBlank(arg.desired[r][c])
       /\ \A r \in 1..Len(arg.desired) : \A c \in 1..Len(arg.desired[r]) :
             BlankOrAbsent(arg.existing, r, c) =>
                /\ r \in DOMAIN out.merged
                /\ c \in DOMAIN out.merged[r]
                /\ out.merged[r][c] = arg.desired[r][c]

C23_Witness ==
    /\ phase = "output"
    /\ ~out.wrote
    /\ Len(arg.desired) = 1
    /\ Len(arg.desired[1]) = 2
    /\ \E c, d \in 1..2 :
          /\ ~Absent(arg.existing, 1, c)
          /\ NonBlank(arg.existing[1][c])
          /\ NonBlank(arg.desired[1][c])
          /\ BlankOrAbsent(arg.existing, 1, d)
          /\ ~NonBlank(arg.desired[1][d])
          /\ out.merged[1][d] = arg.desired[1][d]


----------------------------------------------------------------------------
(* Claims about the summary and the frame of a run.                        *)

\* C24: on a Done run the totals of the summary are the totals that the
\* service reported in its response to the run's one batch update
\* (TotalCells is the response's cell total, TotalRows its row total), and
\* the summary lists one range per submitted payload, at least one, in the
\* order of the payloads. A run with one target cell that was fetched blank
\* reports that one range, one cell and one row.
C24_SummaryCounts ==
    pc = "Done" =>
       /\ Cardinality(BatchCalls) = 1
       /\ summary.TotalCells = resp.TotalUpdatedCells
       /\ summary.TotalRows = resp.TotalUpdatedRows
       /\ \A k \in BatchCalls :
             /\ calls[k].ok
             /\ Len(summary.Ranges) = Len(calls[k].data)
             /\ \A j \in 1..Len(calls[k].data) :
                   summary.Ranges[j] = calls[k].data[j].Range
       /\ Len(summary.Ranges) = Len(payloads)
       /\ Len(summary.Ranges) >= 1
       /\ summary.SkippedReason = ""
       /\ (Len(ranges) = 1 /\ ~HoldsData(fetchedVals[1])) =>
             /\ summary.Ranges = << ranges[1] >>
             /\ summary.TotalCells = 1
             /\ summary.TotalRows = 1

C24_Witness ==
    /\ pc = "Done"
    /\ Len(ranges) = 1
    /\ fetchedVals = << << << << " " >> >> >> >>
    /\ resp = [TotalUpdatedCells |-> 1, TotalUpdatedRows |-> 1]
    /\ summary = [Ranges |-> ranges, TotalCells |-> 1, TotalRows |-> 1,
                  SkippedReason |-> ""]


\* address a was returned by the scan and its fetched value was blank
FetchedBlank(a) ==
    \E i \in 1..Len(fetchedVals) : ranges[i] = a /\ ~HoldsData(fetchedVals[i])

\* C25: frame of a run. With no other writer during the run, at every point
\* of the run and at its end (Done, NothingToWrite or Failed) a cell of the
\* Google Sheet differs from its value at the start of the run only if its
\* address was returned by the scan and its fetched value was blank; every
\* other cell, and every scanned cell that held data, keeps its value.
C25_FrameOfRun ==
    (phase = "run" /\ quiet) =>
       /\ \A a \in DOMAIN remote :
             remote[a] # startRemote[a] => (pc = "Done" /\ FetchedBlank(a))
       /\ \A a \in DOMAIN remote :
             (\A i \in 1..Len(ranges) : ranges[i] # a) => remote[a] = startRemote[a]
       /\ \A i \in 1..Len(fetchedVals) :
             HoldsData(fetchedVals[i]) =>
                /\ remote[ranges[i]] = startRemote[ranges[i]]
                /\ remote[ranges[i]] = fetchedVals[i]
       /\ pc \in {"NothingToWrite", "Failed"} => remote = startRemote

C25_Witness ==
    /\ phase = "run"
    /\ quiet
    /\ pc = "Done"
    /\ HoldsData(startRemote[OtherAddress])
    /\ remote[OtherAddress] = startRemote[OtherAddress]
    /\ \E i, j \in 1..Len(ranges) :
          /\ HoldsData(startRemote[ranges[i]])
          /\ remote[ranges[i]] = startRemote[ranges[i]]
          /\ remote[ranges[j]] # startRemote[ranges[j]]


\* C26: config.Write changes nothing on error. config.yaml is written only
\* after the workbook copy, if any, succeeded and Validate passed; when Write
\* has failed, config.yaml and the workbook at cfg/Schedule.xlsx are what they
\* were before the call.
C26_FailedWriteChangesNothing ==
    /\ (phase \in {"copy", "validate", "write"}) => out.config = arg.config0
    /\ phase = "failed" =>
          /\ out.err # "nil"
          /\ out.config = arg.config0
          /\ out.workbook = arg.workbook0

====
